---- MODULE Spec2Model ----
(***************************************************************************)
(* Model of batch/sonar.py: the `ranger` class.                            *)
(*                                                                         *)
(* Three execution contexts share the object's fields:                     *)
(*   - the caller thread, running read / read_mm / convert_to_water_level  *)
(*     / read_both one call at a time;                                     *)
(*   - the canceller, running cancel() at any moment;                      *)
(*   - the pigpio callback thread, running _cbf on each queued edge, one   *)
(*     field write per step.                                               *)
(* The environment produces echo edges and advances the wall clock.        *)
(*                                                                         *)
(* Optional values: None is <<>>, a number n is <<n>>.                     *)
(* Millimetres are kept as integers scaled by 1000 (micrometres).          *)
(***************************************************************************)
EXTENDS Integers, Sequences, FiniteSets, TLC

\* ---- bounds of the model ----
MaxCalls == 1
MaxEchoEdges == 2
\* edges that may already wait for the callback thread when the sensor adds one
MaxPending == 0
\* seconds between two looks at the wall clock
ClockStep == 2

\* ---- program constants ----
TRIGGER == "SonarTrigger"
ECHO == "SonarEcho"
HEIGHT == 2000000
SENTINEL == 20000
DEADLINE == 3

None == <<>>
Some(n) == <<n>>

\* pin modes a pin can be found in before construction, as (trigger, echo)
OrigModes == {<<"INPUT", "ALT0">>}
\* distances handed to convert_to_water_level by the caller (micrometres)
Distances == {999845, 3430000}
\* tick distance between an echo edge and the previous edge
Deltas == {1, 2}

VARIABLES
    ping,          \* self._ping
    high,          \* self._high
    time,          \* self._time
    triggered,     \* self._triggered
    inited,        \* self._inited
    trig_mode,     \* self._trig_mode
    echo_mode,     \* self._echo_mode
    pinMode,       \* the GPIO subsystem: current mode of each pin
    cbs,           \* the GPIO subsystem: pins with a registered edge callback
    queue,         \* edges waiting for the callback thread
    tick,          \* tick of the latest edge
    cbfpc,         \* position of the callback thread inside _cbf
    ev,            \* the edge _cbf is handling past line 70
    seen,          \* how far the latest edges match trigger-low, echo-high, echo-low
    pc,            \* position of the caller thread
    stack,         \* return labels of the caller's pending frames
    op,            \* entry point of the current / last call
    ret,           \* value returned by the latest nested call
    dist,          \* read_mm's local `dist`
    arg,           \* the argument of the entry-point call
    result,        \* value returned by the last entry-point call
    raised,        \* the last entry-point call ended in an exception
    elapsed,       \* time.time() - start, in seconds
    cpc,           \* position of the canceller inside cancel()
    calls,         \* entry-point calls made
    echoEdges,     \* echo edges produced
    cancelsDone,   \* completed cancel() calls: 0, 1, or 2 for two and more
    obs            \* observations about the current call (history)

vars == <<ping, high, time, triggered, inited, trig_mode, echo_mode, pinMode,
          cbs, queue, tick, cbfpc, ev, seen, pc, stack, op, ret, dist, arg, result,
          raised, elapsed, cpc, calls, echoEdges, cancelsDone, obs>>

fields == <<ping, high, time, triggered, inited, trig_mode, echo_mode>>
gpiovars == <<pinMode, cbs>>
cbfvars == <<queue, tick, cbfpc, ev, seen>>
callervars == <<pc, stack, op, ret, dist, arg, result, raised, elapsed, calls>>

NoEdge == [pin |-> "none", level |-> 0, tick |-> 0]
Nothing == [stage |-> 0, t0 |-> 0, t1 |-> 0, t2 |-> 0]

\* observations reset at every entry-point call
NewObs == [afterCancel   |-> cancelsDone > 0,  \* call began after a completed cancel
           reads         |-> 0,       \* read() invocations of this call
           pulses        |-> 0,       \* trigger pulses of this call
           firstRet      |-> None,    \* what the first read() returned
           lastRet       |-> None,    \* what the latest read() returned
           inFlight      |-> obs.inFlight,  \* a trigger's read() has not returned yet
           overlap       |-> obs.overlap,   \* a trigger was emitted while inFlight
           echoSinceTrig |-> FALSE,   \* _cbf took an echo edge since this read()'s trigger
           cancelInPoll  |-> FALSE,   \* cancel() completed while this read() was polling
           setBy         |-> obs.setBy,     \* the duration computed by the completion that set _ping last
           fresh         |-> FALSE]   \* _time comes from a rise and a fall after this read()'s trigger-low

\* ---- __init__ ----
Init ==
    /\ ping = FALSE
    /\ high = None
    /\ time = None
    /\ triggered = FALSE
    /\ \E m \in OrigModes : trig_mode = m[1] /\ echo_mode = m[2]
    /\ pinMode = [p \in {TRIGGER, ECHO} |-> IF p = TRIGGER THEN "OUTPUT" ELSE "INPUT"]
    /\ cbs = {TRIGGER, ECHO}
    /\ inited = TRUE
    /\ queue = <<>>
    /\ tick = 0
    /\ cbfpc = "idle"
    /\ ev = NoEdge
    /\ seen = Nothing
    /\ pc = "idle"
    /\ stack = <<>>
    /\ op = "none"
    /\ ret = None
    /\ dist = None
    /\ arg = None
    /\ result = None
    /\ raised = FALSE
    /\ elapsed = 0
    /\ cpc = "idle"
    /\ calls = 0
    /\ echoEdges = 0
    /\ cancelsDone = 0
    /\ obs = [afterCancel |-> FALSE, reads |-> 0, pulses |-> 0, firstRet |-> None,
              lastRet |-> None, inFlight |-> FALSE, overlap |-> FALSE, echoSinceTrig |-> FALSE,
              cancelInPoll |-> FALSE, setBy |-> None, fresh |-> FALSE]

\* ---- the GPIO subsystem and the sensor ----

Edge(p, l, t) == [pin |-> p, level |-> l, tick |-> t]

\* pi.gpio_trigger(pin): a short high-then-low pulse; each edge is queued for
\* the callback thread when a callback is registered on the pin
PulseEdges(p) ==
    IF p \in cbs THEN <<Edge(p, 1, tick + 1), Edge(p, 0, tick + 2)>> ELSE <<>>

\* the sensor (or noise) moves the echo pin
EchoEdge ==
    /\ echoEdges < MaxEchoEdges
    /\ Len(queue) <= MaxPending
    /\ ECHO \in cbs
    /\ \E l \in {0, 1}, d \in Deltas :
          /\ tick' = tick + d
          /\ queue' = Append(queue, Edge(ECHO, l, tick + d))
    /\ echoEdges' = echoEdges + 1
    /\ UNCHANGED <<fields, gpiovars, cbfpc, ev, seen, callervars, cpc, cancelsDone, obs>>

\* the wall clock advances while read() polls
Clock ==
    /\ pc = "r85"
    /\ elapsed <= DEADLINE
    /\ elapsed' = elapsed + ClockStep
    /\ UNCHANGED <<fields, gpiovars, cbfvars, pc, stack, op, ret, dist, arg, result,
                   raised, calls, cpc, echoEdges, cancelsDone, obs>>

\* ---- _cbf(gpio, level, tick), run by the callback thread ----

\* the edges _cbf handled last, as far as they form a ping:
\*   stage 1: a trigger-low at t0;  stage 2: then an echo-high at t1;
\*   stage 3: then an echo-low at t2, and no read() has begun since;
\*   stage 4: then one more echo-low
Remember(e) ==
    IF e.pin = TRIGGER /\ e.level = 0
    THEN [stage |-> 1, t0 |-> e.tick, t1 |-> 0, t2 |-> 0]
    ELSE IF e.pin = ECHO /\ e.level = 1 /\ seen.stage = 1
         THEN [seen EXCEPT !.stage = 2, !.t1 = e.tick]
    ELSE IF e.pin = ECHO /\ e.level = 0 /\ seen.stage = 2
         THEN [seen EXCEPT !.stage = 3, !.t2 = e.tick]
    ELSE IF e.pin = ECHO /\ e.level = 0 /\ seen.stage = 3
         THEN [seen EXCEPT !.stage = 4]
    ELSE Nothing

\* line 60
IsTrigger(e) == e.pin = TRIGGER
\* line 61
TriggerSent(e) == e.level = 0
\* the guard of line 65 left out
AlwaysArmed == TRUE
\* line 65
Armed == triggered
\* line 66
EchoRose(e) == e.level = 1
\* line 69
RiseKnown == high # None
\* the operands of line 70 swapped
DurationSwapped(t, h) == h - t
\* line 70
Duration(t, h) == t - h

\* lines 64-69: the edge is an echo-low that ends a round trip
Completes(e) == ~IsTrigger(e) /\ Armed /\ ~EchoRose(e) /\ RiseKnown

\* a trigger-low edge still waits for _cbf
TriggerLowPending ==
    \E i \in 1..Len(queue) : queue[i].pin = TRIGGER /\ queue[i].level = 0

\* the callback thread takes the next queued edge and calls _cbf with it
Enter ==
    /\ cbfpc = "idle"
    /\ queue # <<>>
    /\ queue' = Tail(queue)
    /\ obs' = IF IsTrigger(Head(queue)) THEN obs
              ELSE [obs EXCEPT !.echoSinceTrig = obs.inFlight,
                               !.fresh = IF Completes(Head(queue))
                                         THEN obs.inFlight /\ ~TriggerLowPending
                                         ELSE @]
    /\ UNCHANGED <<inited, trig_mode, echo_mode, gpiovars, tick, callervars, cpc,
                   echoEdges, cancelsDone>>

\* lines 60-62 without line 63: the recorded rise survives the trigger
CbfTriggerLowKeepsHigh ==
    /\ Enter
    /\ IsTrigger(Head(queue)) /\ TriggerSent(Head(queue))
    /\ triggered' = TRUE
    /\ seen' = Remember(Head(queue))
    /\ UNCHANGED <<ping, high, time, cbfpc, ev>>
\* lines 60-63: the trigger pin went low
CbfTriggerLow ==
    /\ Enter
    /\ IsTrigger(Head(queue)) /\ TriggerSent(Head(queue))
    /\ triggered' = TRUE
    /\ high' = None
    /\ seen' = Remember(Head(queue))
    /\ UNCHANGED <<ping, time, cbfpc, ev>>

\* lines 60-61: the trigger pin went high, nothing to do
CbfTriggerHigh ==
    /\ Enter
    /\ IsTrigger(Head(queue)) /\ ~TriggerSent(Head(queue))
    /\ seen' = Remember(Head(queue))
    /\ UNCHANGED <<ping, high, time, triggered, cbfpc, ev>>

\* lines 64-65: an echo edge before any trigger
CbfEchoUnarmed ==
    /\ Enter
    /\ ~IsTrigger(Head(queue)) /\ ~Armed
    /\ seen' = Remember(Head(queue))
    /\ UNCHANGED <<ping, high, time, triggered, cbfpc, ev>>

\* lines 64-67: the echo pin went high
CbfEchoHigh ==
    /\ Enter
    /\ ~IsTrigger(Head(queue)) /\ Armed /\ EchoRose(Head(queue))
    /\ high' = Some(Head(queue).tick)
    /\ seen' = Remember(Head(queue))
    /\ UNCHANGED <<ping, time, triggered, cbfpc, ev>>

\* lines 64-69 with line 72 outside the guard of line 69
CbfEchoLowNoRiseSetsPing ==
    /\ Enter
    /\ ~IsTrigger(Head(queue)) /\ Armed /\ ~EchoRose(Head(queue)) /\ ~RiseKnown
    /\ ping' = TRUE
    /\ seen' = Remember(Head(queue))
    /\ UNCHANGED <<high, time, triggered, cbfpc, ev>>
\* lines 64-69: the echo pin went low with no rise recorded
CbfEchoLowNoRise ==
    /\ Enter
    /\ ~IsTrigger(Head(queue)) /\ Armed /\ ~EchoRose(Head(queue)) /\ ~RiseKnown
    /\ seen' = Remember(Head(queue))
    /\ UNCHANGED <<ping, high, time, triggered, cbfpc, ev>>

\* lines 64-70: the echo pin went low, the round trip is known
CbfEchoLow ==
    /\ Enter
    /\ ~IsTrigger(Head(queue)) /\ Armed /\ ~EchoRose(Head(queue)) /\ RiseKnown
    /\ time' = Some(Duration(Head(queue).tick, high[1]))
    /\ cbfpc' = "c71"
    /\ ev' = Head(queue)
    /\ UNCHANGED <<ping, high, triggered, seen>>

\* line 71
CbfClearHigh ==
    /\ cbfpc = "c71"
    /\ high' = None
    /\ cbfpc' = "c72"
    /\ UNCHANGED <<ping, time, triggered, inited, trig_mode, echo_mode, gpiovars,
                   queue, tick, ev, seen, callervars, cpc, echoEdges, cancelsDone, obs>>

\* line 72 followed by self._triggered = False
CbfSetPingDisarms ==
    /\ cbfpc = "c72"
    /\ ping' = TRUE
    /\ triggered' = FALSE
    /\ cbfpc' = "idle"
    /\ seen' = Remember(ev)
    /\ ev' = NoEdge
    /\ obs' = [obs EXCEPT !.setBy = time]
    /\ UNCHANGED <<high, time, inited, trig_mode, echo_mode, gpiovars,
                   queue, tick, callervars, cpc, echoEdges, cancelsDone>>
\* line 72
CbfSetPing ==
    /\ cbfpc = "c72"
    /\ ping' = TRUE
    /\ cbfpc' = "idle"
    /\ seen' = Remember(ev)
    /\ ev' = NoEdge
    /\ obs' = [obs EXCEPT !.setBy = time]
    /\ UNCHANGED <<high, time, triggered, inited, trig_mode, echo_mode, gpiovars,
                   queue, tick, callervars, cpc, echoEdges, cancelsDone>>

Cbf ==
    \/ CbfTriggerLow \/ CbfTriggerHigh \/ CbfEchoUnarmed \/ CbfEchoHigh
    \/ CbfEchoLowNoRise \/ CbfEchoLow \/ CbfClearHigh \/ CbfSetPing

\* ---- the caller thread ----

\* line 99: round(((microseconds / 1000000.0) * 343.0 / 2.0) * 1000, 3), in
\* micrometres.  microseconds * 343 / 2 is exact for an even argument; for an
\* odd one the double lies next to a half and round() settles it: RoundsUp
\* lists the odd arguments below 64 for which it rounds up.
RoundsUp == {5, 15, 17, 19, 23, 25, 27, 31, 33, 39, 41, 43, 45, 53, 57, 61}
\* line 99 with 340 m/s for the speed of sound
ConvertAt340(microseconds) == (microseconds * 340) \div 2
convert_to_mm(microseconds) ==
    IF microseconds % 2 = 0 \/ microseconds \notin RoundsUp
    THEN (microseconds * 343) \div 2
    ELSE (microseconds * 343) \div 2 + 1

\* a frame returns v: to the frame below, or to the caller of the entry point
Return(v) ==
    IF stack = <<>>
    THEN /\ pc' = "idle"
         /\ result' = v
         /\ ret' = None
         /\ UNCHANGED stack
    ELSE /\ pc' = Head(stack)
         /\ stack' = Tail(stack)
         /\ ret' = v
         /\ UNCHANGED result

\* an exception leaves every frame
Raise ==
    /\ pc' = "idle"
    /\ stack' = <<>>
    /\ raised' = TRUE
    /\ UNCHANGED <<result, ret>>

CallerFrame == <<fields, gpiovars, cbfvars, cpc, echoEdges, cancelsDone>>
Locals == <<op, arg, calls>>

Call(name, entry, a) ==
    /\ pc = "idle"
    /\ calls < MaxCalls
    /\ calls' = calls + 1
    /\ op' = name
    /\ pc' = entry
    /\ stack' = <<>>
    /\ result' = None
    /\ raised' = FALSE
    /\ ret' = None
    /\ dist' = None
    /\ arg' = a
    /\ obs' = NewObs
    /\ UNCHANGED <<elapsed, CallerFrame>>

CallRead == Call("read", "r81", None)
CallReadMm == Call("read_mm", "m105", None)
CallReadBoth == Call("read_both", "b128", None)
CallConvertToWaterLevel ==
    \E d \in Distances : Call("convert_to_water_level", "w118", Some(d))

\* the check of line 81 left out
ReadAlwaysActive == TRUE
\* line 81
ReadActive == inited
\* line 86 never true: the loop has no deadline
NoDeadline == FALSE
\* line 86
DeadlinePassed == elapsed > DEADLINE
\* line 107 retrying on every reading
IsReading(d) == d # None
\* line 107
IsTimeout(d) == d = Some(SENTINEL)

ReadReturned(v) ==
    [obs EXCEPT !.inFlight = FALSE,
                !.echoSinceTrig = FALSE,
                !.cancelInPoll = FALSE,
                !.fresh = FALSE,
                !.lastRet = v,
                !.firstRet = IF obs.reads = 1 THEN v ELSE @]

\* lines 81, 90-91
ReadCheck ==
    /\ pc = "r81"
    /\ IF ReadActive
       THEN /\ pc' = "r82"
            /\ obs' = [obs EXCEPT !.reads = @ + 1]
            /\ UNCHANGED <<stack, ret, result>>
       ELSE /\ Return(None)
            /\ obs' = [obs EXCEPT !.reads = @ + 1, !.lastRet = None]
    /\ UNCHANGED <<Locals, dist, raised, elapsed, CallerFrame>>

\* line 82
ReadClearPing ==
    /\ pc = "r82"
    /\ ping' = FALSE
    /\ pc' = "r83"
    /\ seen' = IF seen.stage >= 3 THEN Nothing ELSE seen
    /\ UNCHANGED <<high, time, triggered, inited, trig_mode, echo_mode, gpiovars,
                   queue, tick, cbfpc, ev, stack, Locals, ret, dist, result, raised, elapsed,
                   cpc, echoEdges, cancelsDone, obs>>

\* lines 83-84
ReadTrigger ==
    /\ pc = "r83"
    /\ queue' = queue \o PulseEdges(TRIGGER)
    /\ tick' = tick + Len(PulseEdges(TRIGGER))
    /\ elapsed' = 0
    /\ pc' = "r85"
    /\ obs' = [obs EXCEPT !.pulses = @ + 1,
                          !.overlap = @ \/ obs.inFlight,
                          !.inFlight = TRUE,
                          !.echoSinceTrig = FALSE,
                          !.cancelInPoll = FALSE,
                          !.fresh = FALSE]
    /\ UNCHANGED <<fields, gpiovars, cbfpc, ev, seen, stack, Locals, ret, dist,
                   result, raised, cpc, echoEdges, cancelsDone>>

\* lines 85, 89: the loop ends, the ping is complete
ReadPollDone ==
    /\ pc = "r85"
    /\ ping
    /\ pc' = "r89"
    /\ UNCHANGED <<fields, gpiovars, cbfvars, stack, Locals, ret, dist, result,
                   raised, elapsed, cpc, echoEdges, cancelsDone, obs>>

\* lines 86-87 sending a new trigger on timeout instead of returning
ReadTimeoutRetrigger ==
    /\ pc = "r85"
    /\ ~ping
    /\ DeadlinePassed
    /\ queue' = queue \o PulseEdges(TRIGGER)
    /\ tick' = tick + Len(PulseEdges(TRIGGER))
    /\ elapsed' = 0
    /\ obs' = [obs EXCEPT !.pulses = @ + 1,
                          !.overlap = @ \/ obs.inFlight,
                          !.inFlight = TRUE]
    /\ UNCHANGED <<fields, gpiovars, cbfpc, ev, seen, pc, stack, Locals, ret, dist,
                   result, raised, cpc, echoEdges, cancelsDone>>

\* lines 85-87: no ping and the deadline is behind
ReadTimeout ==
    /\ pc = "r85"
    /\ ~ping
    /\ DeadlinePassed
    /\ Return(Some(SENTINEL))
    /\ elapsed' = 0
    /\ obs' = ReadReturned(Some(SENTINEL))
    /\ UNCHANGED <<Locals, dist, raised, CallerFrame>>

\* line 89
ReadReturnTime ==
    /\ pc = "r89"
    /\ Return(time)
    /\ elapsed' = 0
    /\ obs' = ReadReturned(time)
    /\ UNCHANGED <<Locals, dist, raised, CallerFrame>>

\* lines 105-106, 110-111
MmCheck ==
    /\ pc = "m105"
    /\ IF inited
       THEN /\ pc' = "r81"
            /\ stack' = <<"m107">> \o stack
            /\ UNCHANGED <<ret, result>>
       ELSE Return(None)
    /\ UNCHANGED <<Locals, dist, raised, elapsed, obs, CallerFrame>>

\* lines 106-108: dist = self.read(); retry on the sentinel
MmFirst ==
    /\ pc = "m107"
    /\ dist' = ret
    /\ IF IsTimeout(ret)
       THEN /\ pc' = "r81"
            /\ stack' = <<"m108">> \o stack
       ELSE /\ pc' = "m109"
            /\ UNCHANGED stack
    /\ UNCHANGED <<Locals, ret, result, raised, elapsed, obs, CallerFrame>>

\* line 108: dist = self.read()
MmRetry ==
    /\ pc = "m108"
    /\ dist' = ret
    /\ pc' = "m109"
    /\ UNCHANGED <<Locals, stack, ret, result, raised, elapsed, obs, CallerFrame>>

\* line 109 giving None for a timed-out read instead of converting the sentinel
MmConvertNoneOnTimeout ==
    /\ pc = "m109"
    /\ IF dist = None
       THEN Raise
       ELSE /\ Return(IF IsTimeout(dist) THEN None ELSE Some(convert_to_mm(dist[1])))
            /\ UNCHANGED raised
    /\ dist' = None
    /\ UNCHANGED <<Locals, elapsed, obs, CallerFrame>>
\* line 109: convert_to_mm(dist); None / 1000000.0 is a TypeError
MmConvert ==
    /\ pc = "m109"
    /\ IF dist = None
       THEN Raise
       ELSE Return(Some(convert_to_mm(dist[1]))) /\ UNCHANGED raised
    /\ dist' = None
    /\ UNCHANGED <<Locals, elapsed, obs, CallerFrame>>

\* line 119 clamping a negative level to zero
WaterLevelClamped(distance_mm) ==
    IF inited
    THEN Some(IF HEIGHT - distance_mm[1] < 0 THEN 0 ELSE HEIGHT - distance_mm[1])
    ELSE None
\* lines 118-121; HEIGHT - None is a TypeError
convert_to_water_level(distance_mm) ==
    IF inited THEN Some(HEIGHT - distance_mm[1]) ELSE None
WaterLevelFails(distance_mm) == inited /\ distance_mm = None

\* convert_to_water_level as an entry point
WaterLevel ==
    /\ pc = "w118"
    /\ IF WaterLevelFails(arg)
       THEN Raise
       ELSE Return(convert_to_water_level(arg)) /\ UNCHANGED raised
    /\ UNCHANGED <<Locals, dist, elapsed, obs, CallerFrame>>

\* lines 128-129, 131-132
BothCheck ==
    /\ pc = "b128"
    /\ IF inited
       THEN /\ pc' = "m105"
            /\ stack' = <<"b130">> \o stack
            /\ UNCHANGED <<ret, result>>
       ELSE Return(None)
    /\ UNCHANGED <<Locals, dist, raised, elapsed, obs, CallerFrame>>

\* lines 129-130: distance_mm = self.read_mm(); the pair is returned
BothFinish ==
    /\ pc = "b130"
    /\ IF WaterLevelFails(ret)
       THEN Raise
       ELSE Return(<<ret, convert_to_water_level(ret)>>) /\ UNCHANGED raised
    /\ UNCHANGED <<Locals, dist, elapsed, obs, CallerFrame>>

Caller ==
    \/ CallRead \/ CallReadMm \/ CallReadBoth \/ CallConvertToWaterLevel
    \/ ReadCheck \/ ReadClearPing \/ ReadTrigger \/ ReadPollDone \/ ReadTimeout
    \/ ReadReturnTime \/ MmCheck \/ MmFirst \/ MmRetry \/ MmConvert
    \/ WaterLevel \/ BothCheck \/ BothFinish

\* ---- cancel(), run by the canceller ----

CancelFrame == <<ping, high, time, triggered, cbfvars, callervars, echoEdges>>

\* line 142 restoring the trigger pin from the echo pin's saved mode
RestoreTriggerFromEcho == echo_mode
\* line 142
RestoreTrigger == trig_mode
\* line 143
RestoreEcho == echo_mode
\* line 55 overwrote the handle of line 54: self._cb is the echo callback
CbHandle == ECHO

\* lines 139-140
CancelBegin ==
    /\ cpc = "idle"
    /\ IF inited
       THEN /\ inited' = FALSE
            /\ cpc' = "c141"
            /\ UNCHANGED cancelsDone
       ELSE /\ cancelsDone' = IF cancelsDone < 2 THEN cancelsDone + 1 ELSE cancelsDone
            /\ UNCHANGED <<inited, cpc>>
    /\ UNCHANGED <<trig_mode, echo_mode, gpiovars, obs, CancelFrame>>

\* line 141
CancelCallback ==
    /\ cpc = "c141"
    /\ cbs' = cbs \ {CbHandle}
    /\ cpc' = "c142"
    /\ UNCHANGED <<inited, trig_mode, echo_mode, pinMode, cancelsDone, obs, CancelFrame>>

\* line 142
CancelRestoreTrigger ==
    /\ cpc = "c142"
    /\ pinMode' = [pinMode EXCEPT ![TRIGGER] = RestoreTrigger]
    /\ cpc' = "c143"
    /\ UNCHANGED <<inited, trig_mode, echo_mode, cbs, cancelsDone, obs, CancelFrame>>

\* line 143
CancelRestoreEcho ==
    /\ cpc = "c143"
    /\ pinMode' = [pinMode EXCEPT ![ECHO] = RestoreEcho]
    /\ cpc' = "idle"
    /\ cancelsDone' = cancelsDone + 1
    /\ obs' = [obs EXCEPT !.cancelInPoll = @ \/ pc = "r85"]
    /\ UNCHANGED <<inited, trig_mode, echo_mode, cbs, CancelFrame>>

Cancel == CancelBegin \/ CancelCallback \/ CancelRestoreTrigger \/ CancelRestoreEcho

Next == EchoEdge \/ Clock \/ Cbf \/ Caller \/ Cancel

Spec == Init /\ [][Next]_vars

\* ---- what the claims speak about ----

\* a step in which a read() that sent its trigger returns
ReadReturns == pc \in {"r85", "r89"} /\ pc' \notin {"r85", "r89"}
\* the value that read() hands back in that step
Returned == IF stack = <<>> THEN result' ELSE ret'
\* a step that sends a trigger pulse
Pulse == obs'.pulses = obs.pulses + 1

\* C1: once _cbf has handled a trigger-low at T0, an echo-high at T1 and an
\* echo-low at T2, one after the other, _time is exactly T2 - T1 and _ping is
\* true (until the next read() clears it), whatever T1 - T0 is.
C1_TimingCorrectness ==
    seen.stage = 3 => ping /\ time = Some(seen.t2 - seen.t1)
C1_Witness ==
    /\ seen.stage = 3
    /\ seen.t0 < seen.t1 /\ seen.t1 < seen.t2
    /\ seen.t1 - seen.t0 # seen.t2 - seen.t1
    /\ time = Some(seen.t2 - seen.t1)

\* C2: a read() that sent its trigger and saw no echo edge handled since
\* returns exactly the sentinel, and only with the deadline behind it.
C2_TimeoutSentinel ==
    [][ReadReturns /\ ~obs.echoSinceTrig
         => Returned = Some(SENTINEL) /\ elapsed > DEADLINE]_vars

\* C3: a call that begins after a completed cancel() never leaves its first
\* check: it sends no trigger, does not poll, does not raise, and returns None,
\* whatever edges _cbf still handles.
C3_PostTeardownNoOp ==
    obs.afterCancel =>
        /\ pc \in {"idle", "r81", "m105", "w118", "b128"}
        /\ obs.pulses = 0
        /\ ~raised
        /\ result = None
C3_Witness ==
    /\ obs.afterCancel
    /\ pc = "idle"
    /\ op = "read_both"
    /\ queue # <<>>
    /\ result = None

\* C4: from the end of the first cancel() on, both pins are in the modes
\* captured at construction and nothing of the teardown changes again: a second
\* cancel() does not enter its body and leaves the pin modes, the active flag
\* and the callback registration alone.
C4_IdempotentTeardown ==
    cancelsDone >= 1 =>
        /\ ~inited
        /\ cpc = "idle"
        /\ pinMode[TRIGGER] = trig_mode
        /\ pinMode[ECHO] = echo_mode
        /\ cbs = {TRIGGER, ECHO} \ {CbHandle}
C4_Witness ==
    /\ cancelsDone = 2
    /\ pinMode[TRIGGER] = trig_mode /\ trig_mode # "OUTPUT"
    /\ pinMode[ECHO] = echo_mode /\ echo_mode # "INPUT"

\* C5: a read() that was polling when a cancel() completed returns None.
C5_CancelEndsRead ==
    [][ReadReturns /\ obs.cancelInPoll => Returned = None]_vars

\* C6: while _triggered is false, _time, _ping and _high still have the values
\* of construction, whatever echo edges _cbf has handled.
C6_NoiseRejection ==
    ~triggered => time = None /\ ~ping /\ high = None
C6_Witness ==
    /\ ~triggered
    /\ echoEdges = MaxEchoEdges
    /\ queue = <<>>
    /\ cbfpc = "idle"
    /\ time = None /\ ~ping /\ high = None

\* C7: a read_mm() runs read() at most twice and sends at most two triggers;
\* it runs the second read() exactly when the first returned the sentinel; and
\* what it converts is the value of the latest read().
C7_RetryOnce ==
    op \in {"read_mm", "read_both"} =>
        /\ obs.reads <= 2
        /\ obs.pulses <= obs.reads
        /\ obs.reads = 2 => obs.firstRet = Some(SENTINEL)
        /\ pc \in {"m108", "m109"} /\ obs.firstRet = Some(SENTINEL) => obs.reads = 2
        /\ pc = "m109" => dist = obs.lastRet
        /\ op = "read_mm" /\ pc = "idle" /\ result # None
              => /\ obs.lastRet # None
                 /\ result = Some(convert_to_mm(obs.lastRet[1]))
                 /\ obs.firstRet = Some(SENTINEL) => obs.reads = 2
C7_Witness ==
    /\ op = "read_mm"
    /\ pc = "idle"
    /\ obs.reads = 2 /\ obs.pulses = 2
    /\ obs.firstRet = Some(SENTINEL)
    /\ obs.lastRet # None /\ obs.lastRet # Some(SENTINEL)
    /\ result = Some(convert_to_mm(obs.lastRet[1]))

\* C8: read_mm() and read_both() never end in an exception.
C8_NeverRaises ==
    op \in {"read_mm", "read_both"} => ~raised

\* C9: once _inited is false no trigger pulse is sent, and the pin modes
\* change only in cancel()'s own restore.
C9_QuietWhenInactive ==
    [][~inited => /\ ~Pulse
                  /\ pinMode' # pinMode => cpc \in {"c142", "c143"}]_vars

\* C10: the caller's triggers never overlap: a trigger is sent only when the
\* read() of the previous trigger has returned.
C10_OneInFlight ==
    /\ ~obs.overlap
    /\ obs.inFlight => pc \in {"r85", "r89"}
C10_Witness ==
    /\ obs.pulses = 2
    /\ ~obs.inFlight
    /\ pc = "idle"
    /\ obs.firstRet = Some(SENTINEL)

\* ---- a read() on an active instance, with more echo edges ----

\* the sensor (or noise) moves the echo pin, two edges more than EchoEdge allows
EchoBurst ==
    /\ echoEdges < MaxEchoEdges + 2
    /\ Len(queue) <= MaxPending
    /\ ECHO \in cbs
    /\ \E l \in {0, 1}, d \in Deltas :
          /\ tick' = tick + d
          /\ queue' = Append(queue, Edge(ECHO, l, tick + d))
    /\ echoEdges' = echoEdges + 1
    /\ UNCHANGED <<fields, gpiovars, cbfpc, ev, seen, callervars, cpc, cancelsDone, obs>>

Reader ==
    \/ CallRead \/ ReadCheck \/ ReadClearPing \/ ReadTrigger \/ ReadPollDone
    \/ ReadTimeout \/ ReadReturnTime

ReaderNext == EchoBurst \/ Clock \/ Cbf \/ Reader

ReaderSpec == Init /\ [][ReaderNext]_vars

\* C11: when read() has seen _ping true, what it returns is not None and is
\* the duration computed by the completion that set _ping.
C11_ConsistentPair ==
    [][pc = "r89" /\ pc' # "r89"
         => Returned # None /\ Returned = obs.setBy]_vars

\* C12: convert_to_water_level(D), called on an active instance, returns
\* exactly HEIGHT - D, negative when D > HEIGHT, writes no field, touches no
\* pin, queues no edge and sends no trigger.
C12_WaterLevel ==
    [][pc = "w118" /\ pc' = "idle"
         => /\ inited => ~raised' /\ result' = Some(HEIGHT - arg[1])
            /\ ~Pulse
            /\ UNCHANGED <<fields, gpiovars, queue, tick>>]_vars
C12_Witness ==
    /\ op = "convert_to_water_level"
    /\ pc = "idle"
    /\ inited
    /\ arg # None /\ arg[1] > HEIGHT
    /\ result = Some(HEIGHT - arg[1])
    /\ result[1] < 0

\* ---- read_mm() and read_both() on given durations ----

\* what read() hands to read_mm(): short odd and even durations, the two
\* durations of the documented examples, and the sentinel
Durations == {1, 5, 1000, 5830, SENTINEL}

\* read() as a whole, returning a given duration (lines 81, 89, 91)
ReadGiven ==
    /\ pc = "r81"
    /\ \E d \in Durations :
          LET v == IF ReadActive THEN Some(d) ELSE None
          IN  /\ Return(v)
              /\ obs' = [obs EXCEPT !.reads = @ + 1,
                                    !.lastRet = v,
                                    !.firstRet = IF obs.reads = 0 THEN v ELSE @]
    /\ UNCHANGED <<Locals, dist, raised, elapsed, CallerFrame>>

ConvNext ==
    \/ CallReadMm \/ CallReadBoth \/ ReadGiven
    \/ MmCheck \/ MmFirst \/ MmRetry \/ MmConvert \/ BothCheck \/ BothFinish
    \/ Cancel
ConvSpec == Init /\ [][ConvNext]_vars

\* the distance of a finished read_mm() or read_both(), in micrometres
Measured == IF op = "read_both" THEN result[1] ELSE result

\* C13: for a duration d that read() returned, read_mm() gives d * 343 / 2
\* micrometres, to the nearest micrometre (three decimals of a millimetre):
\* 171.5 mm for 1000 us, 999.845 mm for 5830 us, and read_both() pairs the
\* latter with the water level 1000.155 mm for the height 2000.0 mm.
C13_Conversion ==
    (/\ op \in {"read_mm", "read_both"}
     /\ pc = "idle"
     /\ ~raised
     /\ result # None
     /\ obs.lastRet # None)
    => LET d == obs.lastRet[1]
       IN  /\ Measured # None
           /\ 2 * Measured[1] - 343 * d \in {-1, 0, 1}
           /\ d % 2 = 0 => 2 * Measured[1] = 343 * d
           /\ d = 1000 => Measured[1] = 171500
           /\ d = 5830 => Measured[1] = 999845
           /\ (d = 5830 /\ op = "read_both" /\ result[2] # None)
                 => result[2] = Some(1000155)
C13_Witness ==
    /\ op = "read_both"
    /\ pc = "idle"
    /\ obs.lastRet = Some(5830)
    /\ result = <<Some(999845), Some(1000155)>>

\* both read() invocations of a finished read_mm() timed out
BothTimedOut ==
    /\ op = "read_mm"
    /\ pc = "idle"
    /\ obs.reads = 2
    /\ obs.firstRet = Some(SENTINEL)
    /\ obs.lastRet = Some(SENTINEL)

\* C14 as stated: when the first read() and the retry both time out, read_mm()
\* returns the converted sentinel, about 3,430,000 mm (3.43 km), without error.
C14_SentinelKilometres ==
    BothTimedOut => ~raised /\ result # None /\ result[1] \div 1000 = 3430000

\* C14: when the first read() and the retry both time out, read_mm() returns
\* the converted sentinel, 3430.0 mm (3.43 m), as an ordinary distance: no
\* exception and no None.
C14_SentinelDistance ==
    BothTimedOut
        => ~raised /\ result = Some(convert_to_mm(SENTINEL)) /\ result = Some(3430000)
C14_Witness ==
    /\ BothTimedOut
    /\ obs.pulses = 2
    /\ result = Some(3430000)
    /\ ~raised

\* C15: once cancel() has completed, no callback is registered on either pin,
\* so no later edge on the trigger pin or the echo pin invokes _cbf.
C15_AllCallbacksCancelled ==
    cancelsDone > 0 => cbs = {}

\* C16: a duration that read() returns after seeing _ping was computed from
\* an echo rise and fall handled after the trigger-low of this read(); a
\* completion left over from an earlier ping is never returned.
C16_OwnPing ==
    [][pc = "r89" /\ pc' # "r89" => obs.fresh]_vars

\* C17: _high is set only while _triggered is true, and it is None when _cbf
\* has handled a trigger-low edge and when it has handled a completing
\* echo-low edge, so the rise of one ping is gone before the next ping's
\* edges are handled.
C17_RiseOnlyWhenArmed ==
    /\ high # None => triggered
    /\ seen.stage = 1 => high = None
    /\ cbfpc = "c72" => high = None
    /\ seen.stage = 3 => high = None
C17_Witness ==
    /\ cbfpc = "idle"
    /\ seen.stage = 3
    /\ time = Some(seen.t2 - seen.t1)
    /\ high = None
    /\ obs.pulses = 2

\* _cbf takes an echo-low edge while armed with no rise recorded
DuplicateEchoLow ==
    /\ cbfpc = "idle"
    /\ queue # <<>>
    /\ ~IsTrigger(Head(queue)) /\ ~EchoRose(Head(queue))
    /\ triggered
    /\ high = None
    /\ queue' = Tail(queue)

\* C18: an echo-low edge handled while armed with no rise recorded, such as
\* a second one right after a completed ping, changes none of _time, _ping,
\* _high and _triggered.
C18_DuplicateIgnored ==
    [][DuplicateEchoLow => UNCHANGED <<time, ping, high, triggered>>]_vars
C18_Witness ==
    /\ seen.stage = 4
    /\ ping
    /\ time = Some(seen.t2 - seen.t1)
    /\ high = None
    /\ triggered

\* _cbf takes a trigger-low edge
TriggerLowHandled ==
    /\ cbfpc = "idle"
    /\ queue # <<>>
    /\ IsTrigger(Head(queue)) /\ TriggerSent(Head(queue))
    /\ queue' = Tail(queue)

\* C19 as stated: once the completing echo-low edge has been handled,
\* _triggered is false again.
C19_ArmedWindow ==
    seen.stage >= 3 => ~triggered

\* C19: _triggered is false until _cbf handles the first trigger-low edge and
\* true from then on; the completing echo-low edge does not clear it.
C19_ArmedForGood ==
    ~triggered /\ [][triggered' = (triggered \/ TriggerLowHandled)]_vars
C19_Witness ==
    /\ seen.stage = 3
    /\ ping
    /\ triggered
    /\ pc = "idle" /\ calls > 0

\* ---- read() with a clock that runs and a loop that keeps polling ----

\* the steps of read() after the call; time.sleep returns and time.time advances
ReadSteps ==
    \/ ReadCheck \/ ReadClearPing \/ ReadTrigger \/ ReadPollDone
    \/ ReadTimeout \/ ReadReturnTime
ReaderLive == ReaderSpec /\ WF_vars(Clock) /\ WF_vars(ReadSteps)

\* C20: every read() begun on an active instance returns, with a completed
\* duration or with the sentinel, however the echo pin behaves.
C20_ReadReturns ==
    [](pc # "idle" => <>(pc = "idle" /\ ~raised /\ result # None))
C20_Witness ==
    /\ pc = "idle"
    /\ op = "read"
    /\ result = Some(SENTINEL)
    /\ echoEdges > 0
    /\ high # None

====
